---- MODULE Spec2Model ----
(***************************************************************************)
(* Model of the Sublime "Tortoise" plugin (src/Tortoise.py): repository    *)
(* root discovery (Tortoise.find_root), VCS selection                      *)
(* (TortoiseCommand.get_vcs), the per-VCS status parsers and the status    *)
(* cache (Tortoise.process_status).                                        *)
(***************************************************************************)
EXTENDS Integers, Sequences, FiniteSets, TLC

(***************************************************************************)
(* Bounds of the model.                                                    *)
(***************************************************************************)
\* Depth of the directory chain walked by find_root (directory 0 is the
\* filesystem root, directory d > 0 has parent d - 1).
MaxDepth == 3
\* Most lines in a status listing written by a child process.
MaxLines == 2
\* The clock of the status cache specification runs from 0 to MaxTime.
MaxTime == 3
\* Largest value of the setting cache_length, in ticks.
MaxCacheLength == 2
\* Longest time a check_status call takes, in ticks.
MaxDur == 1
MaxThreads == 2
\* Depth of the directory chain in the get_vcs specification.
VcsDepth == 2

(***************************************************************************)
(* The filesystem seen by find_root: a chain of ancestor directories, each *)
(* holding a set of marker entries.                                        *)
(***************************************************************************)
MarkerNames == {".svn", ".git", ".hg"}

\* Python's None for an optional directory: the empty sequence; a directory
\* d is <<d>>.
None == <<>>
Some(d) == <<d>>

\* os.path.dirname of a directory: the filesystem root is its own parent.
Dirname(d) == IF d = 0 THEN 0 ELSE d - 1

\* A path handed to the plugin: the directory `at` itself (kind "dir"), a
\* file that lies directly in directory `at` (kind "file"), or Python's None
\* for a view without a file name.
PathsUpTo(depth) == [kind : {"dir", "file"}, at : 0..depth]
NonePath == [kind |-> "None", at |-> 0]

\* os.path.isdir(path)
IsDir(path) == path.kind = "dir"

\* path if os.path.isdir(path) else os.path.dirname(path)
StartDir(path) == path.at

VARIABLES
    markers,      \* filesystem: directory -> set of marker names present in it
    fr,           \* locals of the running find_root call, with self.root_dir
    settings,     \* the setting names of Tortoise.sublime-settings that have a value
    gv,           \* outcome of the last get_vcs call
    pr,           \* the last check_status call: its inputs and its result
    now,          \* time.time(), in ticks
    cache_length, \* the setting cache_length, in ticks
    file_status_cache, \* path -> {'time', 'status'}, or no entry
    hist,         \* per path, the last get_status lookup made for it
    lk,           \* the last get_status lookup, with the state it started from
    threads,      \* the FileSearch threads started, by position in the list
    poller,       \* the running handle_threads call: its arguments and locals
    git_tgit_path, \* the value of the setting git_tgit_path, or None
    view_status,  \* the status area entry 'tortoise' of the view
    set_calls     \* the settings.set calls handle_threads has made

\* os.path.exists(os.path.join(cur_dir, name))
Exists(mk, cur_dir, name) == name \in mk[cur_dir]

(***************************************************************************)
(* Tortoise.find_root                                                      *)
(***************************************************************************)
\* Locals at entry of find_root, called on an object under construction
\* whose attribute self.root_dir is not set yet (None).
FindRootEntry(name, path, find_first) ==
    [pc |-> "loop", name |-> name, find_first |-> find_first, path |-> path,
     root_dir |-> None, last_dir |-> None, cur_dir |-> StartDir(path),
     self_root_dir |-> None]

\* while cur_dir != last_dir
LoopCond(s) == Some(s.cur_dir) # s.last_dir

\* LoopBody without the break at the first ancestor that lacks the marker.
LoopBody_NoGapBreak(s, mk) ==
    IF Exists(mk, s.cur_dir, s.name)
    THEN IF s.find_first
         THEN [s EXCEPT !.root_dir = Some(s.cur_dir), !.pc = "after"]
         ELSE [s EXCEPT !.root_dir = Some(s.cur_dir),
                        !.last_dir = Some(s.cur_dir),
                        !.cur_dir = Dirname(s.cur_dir)]
    ELSE [s EXCEPT !.last_dir = Some(s.cur_dir),
                   !.cur_dir = Dirname(s.cur_dir)]

\* LoopBody with the find_first break missing.
LoopBody_NoFirstBreak(s, mk) ==
    IF s.root_dir # None /\ ~Exists(mk, s.cur_dir, s.name)
    THEN [s EXCEPT !.pc = "after"]
    ELSE IF Exists(mk, s.cur_dir, s.name)
         THEN [s EXCEPT !.root_dir = Some(s.cur_dir),
                        !.last_dir = Some(s.cur_dir),
                        !.cur_dir = Dirname(s.cur_dir)]
         ELSE [s EXCEPT !.last_dir = Some(s.cur_dir),
                        !.cur_dir = Dirname(s.cur_dir)]

\* One pass through the body of the while loop; pc "after" means the loop
\* was left by break.
LoopBody(s, mk) ==
    IF s.root_dir # None /\ ~Exists(mk, s.cur_dir, s.name)
    THEN [s EXCEPT !.pc = "after"]
    ELSE IF Exists(mk, s.cur_dir, s.name)
         THEN IF s.find_first
              THEN [s EXCEPT !.root_dir = Some(s.cur_dir), !.pc = "after"]
              ELSE [s EXCEPT !.root_dir = Some(s.cur_dir),
                             !.last_dir = Some(s.cur_dir),
                             !.cur_dir = Dirname(s.cur_dir)]
         ELSE [s EXCEPT !.last_dir = Some(s.cur_dir),
                        !.cur_dir = Dirname(s.cur_dir)]

\* One step of the loop: test the condition, then run the body.
LoopStep(s, mk) ==
    IF LoopCond(s) THEN LoopBody(s, mk) ELSE [s EXCEPT !.pc = "after"]

\* The statements after the loop: raise RepositoryNotFoundError, or set
\* self.root_dir and return.
AfterLoop(s) ==
    IF s.root_dir = None
    THEN [s EXCEPT !.pc = "raised"]
    ELSE [s EXCEPT !.pc = "returned", !.self_root_dir = s.root_dir]

RECURSIVE RunFindRoot(_, _)
RunFindRoot(s, mk) ==
    IF s.pc = "loop" THEN RunFindRoot(LoopStep(s, mk), mk)
    ELSE IF s.pc = "after" THEN AfterLoop(s)
    ELSE s

\* The whole call: the final locals, pc "returned" (self.root_dir is then
\* root_dir) or "raised" (RepositoryNotFoundError).
FindRoot(name, path, find_first, mk) ==
    RunFindRoot(FindRootEntry(name, path, find_first), mk)

(***************************************************************************)
(* TortoiseSVN / TortoiseGit / TortoiseHg construction and get_vcs         *)
(***************************************************************************)
SettingKeys == {"svn_tortoiseproc_path", "git_tortoiseproc_path", "hg_hgtk_path"}

\* settings.get(key): the configured value, or "None" when the key is unset.
SettingsGet(st, key) == IF key \in st THEN "path:" \o key ELSE "None"

NoVcs == [kind |-> "None", root_dir |-> None, path |-> "None"]

\* Tortoise.set_binary_path: sets self.path = None and always raises.
SetBinaryPath == "NotFoundError"

\* The result of a constructor: the exception it raised ("none" when it
\* returned) and the object built.
Built(kind, r, binary_path) ==
    IF r.pc = "raised"
    THEN [exc |-> "RepositoryNotFoundError", obj |-> NoVcs]
    ELSE IF binary_path # "None"
         THEN [exc |-> "none",
               obj |-> [kind |-> kind, root_dir |-> r.self_root_dir,
                        path |-> binary_path]]
         ELSE [exc |-> SetBinaryPath, obj |-> NoVcs]

TortoiseSVN(binary_path, file, mk) ==
    Built("TortoiseSVN", FindRoot(".svn", file, FALSE, mk), binary_path)

TortoiseGit(binary_path, file, mk) ==
    Built("TortoiseGit", FindRoot(".git", file, TRUE, mk), binary_path)

\* The second set_binary_path call, in the except branch, raises as well.
TortoiseHg(binary_path, file, mk) ==
    Built("TortoiseHg", FindRoot(".hg", file, TRUE, mk), binary_path)

\* Attempt keeping the first handle built instead of the last.
Attempt_FirstWins(acc, kind, made) ==
    IF acc.exc # "none" THEN acc
    ELSE IF made.exc = "none"
         THEN [acc EXCEPT !.vcs = IF acc.vcs = NoVcs THEN made.obj ELSE acc.vcs,
                          !.tried = Append(acc.tried, kind)]
    ELSE IF made.exc = "RepositoryNotFoundError"
         THEN [acc EXCEPT !.tried = Append(acc.tried, kind)]
    ELSE [acc EXCEPT !.exc = made.exc, !.vcs = NoVcs,
                     !.tried = Append(acc.tried, kind)]

\* One try/except block of get_vcs: `acc` is the outcome so far, `made` the
\* constructor's result.  RepositoryNotFoundError is swallowed (pass), any
\* other exception leaves get_vcs.
Attempt(acc, kind, made) ==
    IF acc.exc # "none" THEN acc
    ELSE IF made.exc = "none"
         THEN [acc EXCEPT !.vcs = made.obj, !.tried = Append(acc.tried, kind)]
    ELSE IF made.exc = "RepositoryNotFoundError"
         THEN [acc EXCEPT !.tried = Append(acc.tried, kind)]
    ELSE [acc EXCEPT !.exc = made.exc, !.vcs = NoVcs,
                     !.tried = Append(acc.tried, kind)]

\* get_vcs with the test of path against None placed after the attempts.
GetVcs_LateNoneCheck(path, mk, st) ==
    LET a0 == [exc |-> "none", vcs |-> NoVcs, tried |-> <<>>]
        a1 == Attempt(a0, "TortoiseSVN",
                      TortoiseSVN(SettingsGet(st, "svn_tortoiseproc_path"), path, mk))
        a2 == Attempt(a1, "TortoiseGit",
                      TortoiseGit(SettingsGet(st, "git_tortoiseproc_path"), path, mk))
        a3 == Attempt(a2, "TortoiseHg",
                      TortoiseHg(SettingsGet(st, "hg_hgtk_path"), path, mk))
    IN IF path = NonePath \/ (a3.exc = "none" /\ a3.vcs = NoVcs)
       THEN [a3 EXCEPT !.exc = "NotFoundError", !.vcs = NoVcs]
       ELSE a3

\* TortoiseCommand.get_vcs: exc is the exception that left the call ("none"
\* when it returned vcs), tried the constructors called, in order.
GetVcs(path, mk, st) ==
    IF path = NonePath
    THEN [exc |-> "NotFoundError", vcs |-> NoVcs, tried |-> <<>>]
    ELSE LET a0 == [exc |-> "none", vcs |-> NoVcs, tried |-> <<>>]
             a1 == Attempt(a0, "TortoiseSVN",
                           TortoiseSVN(SettingsGet(st, "svn_tortoiseproc_path"), path, mk))
             a2 == Attempt(a1, "TortoiseGit",
                           TortoiseGit(SettingsGet(st, "git_tortoiseproc_path"), path, mk))
             a3 == Attempt(a2, "TortoiseHg",
                           TortoiseHg(SettingsGet(st, "hg_hgtk_path"), path, mk))
         IN IF a3.exc = "none" /\ a3.vcs = NoVcs
            THEN [a3 EXCEPT !.exc = "NotFoundError"]
            ELSE a3

(***************************************************************************)
(* Text.  A string is a sequence of one-character strings.                 *)
(***************************************************************************)
LF == "\n"
CR == "\r"
SP == " "
BS == "\\"

\* s[i..], the empty string when i is past the end.
Drop(s, i) == SubSeq(s, i, Len(s))

\* str.startswith
StartsWith(s, prefix) ==
    Len(prefix) <= Len(s) /\ SubSeq(s, 1, Len(prefix)) = prefix

\* re.search(re.escape(p) + '$', s) is not None: the escaped pattern matches
\* p literally and '$' anchors it at the end of s (s holds no newline).
SearchAtEnd(p, s) ==
    Len(p) <= Len(s) /\ SubSeq(s, Len(s) - Len(p) + 1, Len(s)) = p

\* The first index at which old occurs in s, 0 when it does not.
Find(s, old) ==
    LET at == {i \in 1..(Len(s) - Len(old) + 1) : SubSeq(s, i, i + Len(old) - 1) = old}
    IN IF at = {} THEN 0 ELSE CHOOSE i \in at : \A j \in at : i <= j

\* s.replace(old, new, 1), old not empty.
ReplaceFirst(s, old, new) ==
    LET i == Find(s, old)
    IN IF i = 0 THEN s
       ELSE SubSeq(s, 1, i - 1) \o new \o Drop(s, i + Len(old))

\* s.replace(old, new), old not empty: every occurrence, left to right.
RECURSIVE ReplaceAll(_, _, _)
ReplaceAll(s, old, new) ==
    LET i == Find(s, old)
    IN IF i = 0 THEN s
       ELSE SubSeq(s, 1, i - 1) \o new \o ReplaceAll(Drop(s, i + Len(old)), old, new)

\* s.rstrip(chars)
RECURSIVE RStrip(_, _)
RStrip(s, chars) ==
    IF s # <<>> /\ s[Len(s)] \in chars THEN RStrip(SubSeq(s, 1, Len(s) - 1), chars)
    ELSE s

\* s.lstrip(chars)
RECURSIVE LStrip(_, _)
LStrip(s, chars) ==
    IF s # <<>> /\ s[1] \in chars THEN LStrip(Tail(s), chars) ELSE s

\* The whitespace str.strip() removes, among the characters of the model.
Whitespace == {SP, LF, CR}

\* s.strip()
Strip(s) == LStrip(RStrip(s, Whitespace), Whitespace)

\* s.split(sep) for a one-character sep: the pieces between the separators,
\* [''] for the empty string.
RECURSIVE Split(_, _)
Split(s, sep) ==
    LET at == {i \in 1..Len(s) : s[i] = sep}
    IN IF at = {} THEN <<s>>
       ELSE LET i == CHOOSE k \in at : \A j \in at : k <= j
            IN <<SubSeq(s, 1, i - 1)>> \o Split(Drop(s, i + 1), sep)

\* One character upper-cased (str.upper on a one-character string).
Upper(c) ==
    CASE c = "m" -> "M"
      [] c = "a" -> "A"
      [] c = "s" -> "S"
      [] OTHER -> c

(***************************************************************************)
(* NonInteractiveProcess.run: what the child process did is the input, a   *)
(* record holding whether it could be launched and the text it wrote.      *)
(***************************************************************************)
\* The process could not be started: subprocess.Popen raises OSError.
LaunchFailure == [launched |-> FALSE, text |-> <<>>]
Wrote(text) == [launched |-> TRUE, text |-> text]

\* readout.replace('\r\n', '\n').rstrip(' \n\r')
Run(proc) == RStrip(ReplaceAll(proc.text, <<CR, LF>>, <<LF>>), {SP, LF, CR})

(***************************************************************************)
(* Git.check_status, Hg.check_status, SVN.check_status.  The result is a   *)
(* record: exc "none" and the status returned, or the exception raised.    *)
(***************************************************************************)
Returned(status) == [exc |-> "none", status |-> status]
Raised(exc) == [exc |-> exc, status |-> <<>>]

\* path.replace(self.root_dir + '\\', '', 1)
PathWithoutRoot(path, root_dir) == ReplaceFirst(path, root_dir \o <<BS>>, <<>>)

\* The line filter with the continue missing: no line is skipped.
LineSkipped_Never(line, path, root_dir) == FALSE

\* if self.root_dir != path and re.search(path_regex, line) is None: continue
LineSkipped(line, path, root_dir) ==
    root_dir # path /\ ~SearchAtEnd(PathWithoutRoot(path, root_dir), line)

\* GitScan taking column 1 whether or not it is blank.
RECURSIVE GitScan_Col1Only(_, _, _, _)
GitScan_Col1Only(result, i, path, root_dir) ==
    IF i > Len(result) THEN <<>>
    ELSE LET line == result[i]
         IN IF Len(line) < 2 THEN GitScan_Col1Only(result, i + 1, path, root_dir)
            ELSE IF LineSkipped(line, path, root_dir)
                 THEN GitScan_Col1Only(result, i + 1, path, root_dir)
            ELSE <<Upper(line[1])>>

\* The for loop of Git.check_status over the lines from index i on.
RECURSIVE GitScan(_, _, _, _)
GitScan(result, i, path, root_dir) ==
    IF i > Len(result) THEN <<>>
    ELSE LET line == result[i]
         IN IF Len(line) < 2 THEN GitScan(result, i + 1, path, root_dir)
            ELSE IF LineSkipped(line, path, root_dir)
                 THEN GitScan(result, i + 1, path, root_dir)
            ELSE IF line[1] # SP THEN <<Upper(line[1])>>
            ELSE <<Upper(line[2])>>

\* Git.check_status(path): isdir is os.path.isdir(path), proc the outcome
\* of the one process it starts ('git log -1 path' or 'git status --short').
GitCheckStatus(path, isdir, root_dir, proc) ==
    IF ~proc.launched THEN Raised("OSError")
    ELSE IF isdir
         THEN IF Split(Strip(Run(proc)), LF) = <<(<<>>)>>
              THEN Returned(<<"?">>)
              ELSE Returned(<<>>)
         ELSE Returned(GitScan(Split(Strip(Run(proc)), LF), 1, path, root_dir))

\* The for loop of Hg.check_status.
RECURSIVE HgScan(_, _)
HgScan(result, i) ==
    IF i > Len(result) THEN <<>>
    ELSE IF Len(result[i]) < 1 THEN HgScan(result, i + 1)
    ELSE <<Upper(result[i][1])>>

\* Hg.check_status(path)
HgCheckStatus(path, isdir, root_dir, proc) ==
    IF ~proc.launched THEN Raised("OSError")
    ELSE IF isdir
         THEN IF Split(Strip(Run(proc)), LF) = <<(<<>>)>>
              THEN Returned(<<"?">>)
              ELSE Returned(<<>>)
         ELSE Returned(HgScan(Split(Run(proc), LF), 1))

\* check_errors that never raises.
CheckErrors_Never(error) == "none"

\* SVN.check_errors(error): raises for E155021, returns otherwise.
CheckErrors(error) ==
    IF error = <<"E", "1", "5", "5", "0", "2", "1">>  \* "E155021"
    THEN "Exception" ELSE "none"

\* The second for loop of SVN.check_status.
RECURSIVE SvnScan(_, _, _, _)
SvnScan(result, i, path, root_dir) ==
    IF i > Len(result) THEN <<>>
    ELSE LET line == result[i]
         IN IF Len(line) < 1 THEN SvnScan(result, i + 1, path, root_dir)
            ELSE IF LineSkipped(line, path, root_dir)
                 THEN SvnScan(result, i + 1, path, root_dir)
            ELSE <<line[1]>>

\* The first for loop of SVN.check_status from candidate i on: procs[i] is
\* the outcome of running the i-th entry of self.svn_paths.  It yields the
\* exception raised, or the result the second loop scans and the number of
\* candidates run.
RECURSIVE SvnCandidates(_, _, _)
SvnCandidates(procs, i, result) ==
    IF i > Len(procs) THEN [exc |-> "none", result |-> result, ran |-> i - 1]
    ELSE IF ~procs[i].launched THEN [exc |-> "OSError", result |-> <<>>, ran |-> i]
    ELSE LET res == Split(Run(procs[i]), LF)
         IN IF Len(res) > 0 /\ StartsWith(res[1], <<"s", "v", "n", ":", SP, "E">>)
            THEN IF CheckErrors(Strip(Split(res[1], ":")[2])) # "none"
                 THEN [exc |-> "Exception", result |-> <<>>, ran |-> i]
                 ELSE SvnCandidates(procs, i + 1, res)
            ELSE [exc |-> "none", result |-> res, ran |-> i]

\* SVN.check_status(path); procs has one outcome per entry of self.svn_paths.
SvnCheckStatus(path, root_dir, procs) ==
    LET c == SvnCandidates(procs, 1, <<>>)
    IN IF c.exc # "none" THEN Raised(c.exc)
       ELSE Returned(SvnScan(c.result, 1, path, root_dir))

(***************************************************************************)
(* What the child processes write.  An outcome is a record: kind "fail"    *)
(* (the binary could not be started), "error" (svn wrote an error line     *)
(* with the given code) or "listing" (status lines, each a status field    *)
(* and a file name, ended by eol).                                         *)
(***************************************************************************)
\* The repository root and the paths queried below it (Windows paths, as
\* the editor reports them).
RootDir == <<"r">>
FileF == <<"f">>
FileBF == <<"b", "f">>
FileDF == <<"d", BS, "f">>
QueryNames == {FileF, FileBF, FileDF}
Under(root_dir, name) == root_dir \o <<BS>> \o name
SubDir == Under(RootDir, <<"d">>)

Fail == [kind |-> "fail", code |-> <<>>, lines |-> <<>>, eol |-> <<LF>>]
ErrorLine(code) == [kind |-> "error", code |-> code, lines |-> <<>>, eol |-> <<LF>>]
Listing(lines, eol) == [kind |-> "listing", code |-> <<>>, lines |-> lines, eol |-> eol]

E155021 == <<"E", "1", "5", "5", "0", "2", "1">>
E170013 == <<"E", "1", "7", "0", "0", "1", "3">>

\* Sequences over S of length at most n.
SeqsUpTo(S, n) == UNION {[1..k -> S] : k \in 0..n}

Eols == {<<LF>>, <<CR, LF>>}

\* git status --short: two status columns, a space, the path from the root
\* with forward slashes.
GitCodes == {<<SP, "M">>, <<"M", SP>>, <<"A", SP>>, <<"?", "?">>, <<SP, "m">>, <<"A", "M">>}
GitNames == {FileF, FileBF, <<"d", "/", "f">>}
GitLines == [st : GitCodes, name : GitNames]
GitOutcomes == {Fail} \cup {Listing(l, e) : l \in SeqsUpTo(GitLines, MaxLines), e \in Eols}

\* svn status <path>: a status column, six more columns and a space, then
\* the path as it was given.
SvnCodes == {<<"M">>, <<"A">>, <<"?">>, <<"C">>}
SvnNames == {Under(RootDir, n) : n \in QueryNames}
SvnLines == [st : SvnCodes, name : SvnNames]
SvnListings == {Listing(l, e) : l \in SeqsUpTo(SvnLines, MaxLines), e \in Eols}
SvnErrors == {ErrorLine(E155021), ErrorLine(E170013)}
SvnOutcomes == {Fail} \cup SvnErrors \cup SvnListings

\* hg status <path>: a status column, a space, the path.
HgCodes == {<<"M">>, <<"A">>, <<"?">>, <<"m">>}
HgLines == [st : HgCodes, name : QueryNames]
HgOutcomes == {Fail} \cup {Listing(l, e) : l \in SeqsUpTo(HgLines, MaxLines), e \in Eols}

Gap(vcs) == IF vcs = "SVN" THEN <<SP, SP, SP, SP, SP, SP, SP>> ELSE <<SP>>

\* The text of one status line.
LineText(vcs, l) == l.st \o Gap(vcs) \o l.name

\* The lines of a listing, each ended by eol.
RECURSIVE ListingText(_, _, _)
ListingText(vcs, lines, eol) ==
    IF lines = <<>> THEN <<>>
    ELSE LineText(vcs, Head(lines)) \o eol \o ListingText(vcs, Tail(lines), eol)

\* The child process of an outcome, as NonInteractiveProcess sees it.
ProcOf(vcs, o) ==
    IF o.kind = "fail" THEN LaunchFailure
    ELSE IF o.kind = "error"
         THEN Wrote(<<"s", "v", "n", ":", SP>> \o o.code \o <<":", SP, "x">> \o o.eol)
    ELSE Wrote(ListingText(vcs, o.lines, o.eol))

ProcsOf(vcs, outs) == [i \in 1..Len(outs) |-> ProcOf(vcs, outs[i])]

\* check_status of the parser `vcs` on the outcomes of the processes it runs.
CheckStatus(vcs, path, isdir, root_dir, outs) ==
    CASE vcs = "SVN" -> SvnCheckStatus(path, root_dir, ProcsOf(vcs, outs))
      [] vcs = "Git" -> GitCheckStatus(path, isdir, root_dir, ProcOf(vcs, outs[1]))
      [] vcs = "Hg" -> HgCheckStatus(path, isdir, root_dir, ProcOf(vcs, outs[1]))

(***************************************************************************)
(* Tortoise.process_status and the module-level file_status_cache.         *)
(***************************************************************************)
\* Python's None as a status (a status is a string of at most one
\* character).
NoneStatus == <<"None">>

NoEntry == [present |-> FALSE, time |-> 0, status |-> <<>>]
Entry(time, status) == [present |-> TRUE, time |-> time, status |-> status]

\* path in file_status_cache and
\* file_status_cache[path]['time'] > time.time() - settings.get('cache_length')
CacheHit_PlusLength(entry, t, length) == entry.present /\ entry.time > t + length

CacheHit(entry, t, length) == entry.present /\ entry.time > t - length

\* except (Exception): the exceptions check_status raises here are
\* subclasses of Exception.
Caught(exc) == exc \in {"Exception", "OSError"}

\* process_status with status initialised to '' instead of None.
ProcessStatus_EmptyOnError(entry, t, length, res, dur) ==
    IF CacheHit(entry, t, length)
    THEN [result |-> entry.status, calls |-> 0, raised |-> FALSE, surfaced |-> FALSE,
          escaped |-> FALSE, entry |-> entry, t_end |-> t]
    ELSE IF res.exc # "none" /\ ~Caught(res.exc)
         THEN [result |-> NoneStatus, calls |-> 1, raised |-> TRUE, surfaced |-> FALSE,
               escaped |-> TRUE, entry |-> entry, t_end |-> t + dur]
    ELSE LET status == IF res.exc = "none" THEN res.status ELSE <<>>
         IN [result |-> status, calls |-> 1, raised |-> res.exc # "none",
             surfaced |-> res.exc # "none", escaped |-> FALSE,
             entry |-> Entry(t + dur + length, status), t_end |-> t + dur]

\* process_status with the store inside the try block: skipped on error.
ProcessStatus_NoStoreOnError(entry, t, length, res, dur) ==
    IF CacheHit(entry, t, length)
    THEN [result |-> entry.status, calls |-> 0, raised |-> FALSE, surfaced |-> FALSE,
          escaped |-> FALSE, entry |-> entry, t_end |-> t]
    ELSE IF res.exc # "none" /\ ~Caught(res.exc)
         THEN [result |-> NoneStatus, calls |-> 1, raised |-> TRUE, surfaced |-> FALSE,
               escaped |-> TRUE, entry |-> entry, t_end |-> t + dur]
    ELSE LET status == IF res.exc = "none" THEN res.status ELSE NoneStatus
         IN [result |-> status, calls |-> 1, raised |-> res.exc # "none",
             surfaced |-> res.exc # "none", escaped |-> FALSE,
             entry |-> IF res.exc = "none" THEN Entry(t + dur + length, status) ELSE entry,
             t_end |-> t + dur]

\* Tortoise.process_status(vcs, path): entry is file_status_cache's entry
\* for path, t the time at entry, res what vcs.check_status(path) does when
\* called and dur the time it takes.  Yields the status returned, the
\* number of check_status calls, whether check_status raised, whether
\* sublime.error_message was shown, whether an exception left the call, the
\* entry for path afterwards and the time at the end.
ProcessStatus(entry, t, length, res, dur) ==
    IF CacheHit(entry, t, length)
    THEN [result |-> entry.status, calls |-> 0, raised |-> FALSE, surfaced |-> FALSE,
          escaped |-> FALSE, entry |-> entry, t_end |-> t]
    ELSE IF res.exc # "none" /\ ~Caught(res.exc)
         THEN [result |-> NoneStatus, calls |-> 1, raised |-> TRUE, surfaced |-> FALSE,
               escaped |-> TRUE, entry |-> entry, t_end |-> t + dur]
    ELSE LET status == IF res.exc = "none" THEN res.status ELSE NoneStatus
         IN [result |-> status, calls |-> 1, raised |-> res.exc # "none",
             surfaced |-> res.exc # "none", escaped |-> FALSE,
             entry |-> Entry(t + dur + length, status), t_end |-> t + dur]

(***************************************************************************)
(* FileSearch and handle_threads.                                          *)
(***************************************************************************)
\* Python's None as a path.
NoPath == "None"

\* What search_file does in a thread: it returns the path of a match,
\* returns None, or raises.
SearchPaths == {"p1", "p2"}
SearchOutcomes ==
    {[kind |-> "found", path |-> p, exc |-> "none"] : p \in SearchPaths}
        \cup {[kind |-> "nothing", path |-> NoPath, exc |-> "none"]}
        \cup {[kind |-> "error", path |-> NoPath, exc |-> "OSError"]}

\* FileSearch(timeout, f) followed by start(): self.result = None and the
\* thread is alive.
Started(o) == [pc |-> "running", outcome |-> o, result |-> NoPath, escaped |-> FALSE]

\* except Exception: pass
SearchCaught(exc) == exc \in {"Exception", "OSError"}

\* FileSearch.run up to its return statement: self.result is assigned when
\* search_file returned a path (pc "found": assigned, the thread has not
\* ended yet); every other way the thread ends with result None.
FileSearchRun(th) ==
    IF th.outcome.kind = "found"
    THEN [th EXCEPT !.result = th.outcome.path, !.pc = "found"]
    ELSE IF th.outcome.kind = "error" /\ ~SearchCaught(th.outcome.exc)
         THEN [th EXCEPT !.pc = "done", !.escaped = TRUE]
    ELSE [th EXCEPT !.pc = "done"]

\* thread.is_alive()
IsAlive(th) == th.pc # "done"

\* The test of thread.result missing: every finished thread is written.
ResultIsNone_Never(th) == FALSE

\* if thread.result is None: continue
ResultIsNone(th) == th.result = NoPath

\* The status area: no entry, or 'Tortoise [%s=%s]' with `before` and
\* `after` spaces.
Erased == [shown |-> FALSE, before |-> 0, after |-> 0]
Shown(before, after) == [shown |-> TRUE, before |-> before, after |-> after]

\* The activity indicator of handle_threads: the new i and dir and the
\* status text.
Animate(i, dir) ==
    LET before == i % 8
        after == 7 - before
        d1 == IF after = 0 THEN -1 ELSE dir
        d2 == IF before = 0 THEN 1 ELSE d1
    IN [i |-> i + d2, dir |-> d2, status |-> Shown(before, after)]

PollerIdle ==
    [pc |-> "idle", threads |-> <<>>, next_threads |-> <<>>, k |-> 1, i |-> 0, dir |-> 1]

\* Entry of handle_threads(self, threads, i, dir): next_threads = [] and
\* the for loop at its first thread.
HandleThreadsEntry(ths, i, dir) ==
    [pc |-> "loop", threads |-> ths, next_threads |-> <<>>, k |-> 1, i |-> i, dir |-> dir]

parts == <<markers, fr, settings, gv, pr>>
cache_vars == <<now, cache_length, file_status_cache, hist, lk>>
search_vars == <<threads, poller, git_tgit_path, view_status, set_calls>>
vars == <<parts, cache_vars, search_vars>>

\* The search part of the state when no search was started.
SearchIdle ==
    /\ threads = <<>>
    /\ poller = PollerIdle
    /\ git_tgit_path = NoPath
    /\ view_status = Erased
    /\ set_calls = {}

\* The two files whose status is looked up in the cache specification.
CachePaths == {Under(RootDir, FileF), Under(RootDir, FileBF)}

NoLookup == [seen |-> FALSE, t |-> 0, calls |-> 0, result |-> <<>>, raised |-> FALSE]

LkIdle ==
    [called |-> FALSE, path |-> <<>>, t |-> 0, t_end |-> 0, calls |-> 0,
     result |-> <<>>, raised |-> FALSE, surfaced |-> FALSE, escaped |-> FALSE,
     prev |-> NoLookup, before |-> NoEntry]

\* The cache part of the state when no lookup was made yet:
\* file_status_cache = {}.
CacheIdle ==
    /\ now = 0
    /\ cache_length = 1
    /\ file_status_cache = [p \in CachePaths |-> NoEntry]
    /\ hist = [p \in CachePaths |-> NoLookup]
    /\ lk = LkIdle

(***************************************************************************)
(* Specification of find_root, one loop iteration per step.                *)
(***************************************************************************)
FrIdle ==
    [pc |-> "idle", name |-> ".svn", find_first |-> FALSE,
     path |-> [kind |-> "dir", at |-> 0],
     root_dir |-> None, last_dir |-> None, cur_dir |-> 0, self_root_dir |-> None]

PrIdle == [called |-> FALSE, vcs |-> "None", path |-> <<>>, isdir |-> FALSE,
           outs |-> <<>>, res |-> Returned(<<>>)]

GvIdle == [called |-> FALSE, path |-> NonePath, exc |-> "none", vcs |-> NoVcs,
           tried |-> <<>>]

\* Filesystems of the find_root specification: one kind of marker, present
\* in any set of the directories of the chain.
RootInit ==
    /\ \E n \in MarkerNames : markers \in [0..MaxDepth -> {{}, {n}}]
    /\ fr = FrIdle
    /\ settings = {}
    /\ gv = GvIdle
    /\ pr = PrIdle
    /\ CacheIdle
    /\ SearchIdle

\* A constructor calls find_root on the fresh object.
FindRootCall ==
    /\ fr.pc \in {"idle", "returned", "raised"}
    /\ \E name \in MarkerNames, path \in PathsUpTo(MaxDepth), find_first \in BOOLEAN :
           fr' = FindRootEntry(name, path, find_first)
    /\ UNCHANGED <<markers, settings, gv, pr, cache_vars, search_vars>>

FindRootLoop ==
    /\ fr.pc = "loop"
    /\ fr' = LoopStep(fr, markers)
    /\ UNCHANGED <<markers, settings, gv, pr, cache_vars, search_vars>>

FindRootExit ==
    /\ fr.pc = "after"
    /\ fr' = AfterLoop(fr)
    /\ UNCHANGED <<markers, settings, gv, pr, cache_vars, search_vars>>

RootNext == FindRootCall \/ FindRootLoop \/ FindRootExit

SpecRoot == RootInit /\ [][RootNext]_vars

\* The loop runs on the calling thread without blocking: a started call keeps
\* stepping.
SpecRootFair == SpecRoot /\ WF_vars(FindRootLoop) /\ WF_vars(FindRootExit)

(***************************************************************************)
(* Specification of get_vcs.                                               *)
(***************************************************************************)
VcsInit ==
    /\ markers \in [0..VcsDepth -> SUBSET MarkerNames]
    /\ settings \in SUBSET SettingKeys
    /\ fr = FrIdle
    /\ gv = GvIdle
    /\ pr = PrIdle
    /\ CacheIdle
    /\ SearchIdle

\* get_vcs keeps no state between calls: one call per behaviour covers it.
GetVcsCall ==
    /\ ~gv.called
    /\ \E path \in PathsUpTo(VcsDepth) \cup {NonePath} :
           LET r == GetVcs(path, markers, settings)
           IN gv' = [called |-> TRUE, path |-> path, exc |-> r.exc, vcs |-> r.vcs,
                     tried |-> r.tried]
    /\ UNCHANGED <<markers, settings, fr, pr, cache_vars, search_vars>>

VcsNext == GetVcsCall

SpecVcs == VcsInit /\ [][VcsNext]_vars

(***************************************************************************)
(* Specification of the status parsers: check_status is called on a file   *)
(* or directory of the repository and the child processes write anything   *)
(* the outcome sets hold.                                                  *)
(***************************************************************************)
\* The targets of a status query: files below the root, the root directory
\* and a directory below it.
FileTargets == {[path |-> Under(RootDir, n), isdir |-> FALSE] : n \in QueryNames}
DirTargets == {[path |-> RootDir, isdir |-> TRUE], [path |-> SubDir, isdir |-> TRUE]}

\* A check_status call about to be made.
Pending(vcs, t, outs) ==
    [called |-> FALSE, vcs |-> vcs, path |-> t.path, isdir |-> t.isdir, outs |-> outs,
     res |-> Returned(<<>>)]

\* SVN.get_svn_paths: the configured svn_path, when set, then the bundled
\* svn.exe.
SvnPaths(st) == IF "svn_path" \in st THEN <<"svn_path", "bundled">> ELSE <<"bundled">>

\* The outcomes of the svn candidates: the second candidate runs only after
\* the first wrote an svn error line.
SvnRuns(st) ==
    IF Len(SvnPaths(st)) = 1 THEN {<<o1>> : o1 \in SvnOutcomes}
    ELSE {<<o1, Fail>> : o1 \in SvnOutcomes}
         \cup {<<o1, o2>> : o1 \in SvnErrors, o2 \in SvnOutcomes}

ParseInit ==
    /\ markers = [d \in 0..0 |-> {}]
    /\ settings \in SUBSET {"svn_path"}
    /\ fr = FrIdle
    /\ gv = GvIdle
    /\ CacheIdle
    /\ SearchIdle
    /\ \E t \in FileTargets \cup DirTargets :
           \/ \E o \in GitOutcomes : pr = Pending("Git", t, <<o>>)
           \/ \E o \in HgOutcomes : pr = Pending("Hg", t, <<o>>)
           \/ \E outs \in SvnRuns(settings) : pr = Pending("SVN", t, outs)

Check(vcs) ==
    /\ ~pr.called
    /\ pr.vcs = vcs
    /\ pr' = [pr EXCEPT !.called = TRUE,
                        !.res = CheckStatus(vcs, pr.path, pr.isdir, RootDir, pr.outs)]
    /\ UNCHANGED <<markers, settings, fr, gv, cache_vars, search_vars>>

GitCheck == Check("Git")

HgCheck == Check("Hg")

SvnCheck == Check("SVN")

ParseNext == GitCheck \/ HgCheck \/ SvnCheck

SpecParse == ParseInit /\ [][ParseNext]_vars

(***************************************************************************)
(* Specification of the status cache: get_status lookups for two files,    *)
(* with time passing between them.                                         *)
(***************************************************************************)
CacheInit ==
    /\ markers = [d \in 0..0 |-> {}]
    /\ settings = {}
    /\ fr = FrIdle
    /\ gv = GvIdle
    /\ pr = PrIdle
    /\ now = 0
    /\ cache_length \in 1..MaxCacheLength
    /\ file_status_cache = [p \in CachePaths |-> NoEntry]
    /\ hist = [p \in CachePaths |-> NoLookup]
    /\ lk = LkIdle
    /\ SearchIdle

\* What the child processes of a lookup may do.
LookupRuns(vcs) ==
    CASE vcs = "Git" -> {<<Fail>>, <<Listing(<<>>, <<LF>>)>>,
                         <<Listing(<<[st |-> <<SP, "M">>, name |-> FileF]>>, <<LF>>)>>}
      [] vcs = "Hg" -> {<<Fail>>, <<Listing(<<>>, <<LF>>)>>,
                        <<Listing(<<[st |-> <<"M">>, name |-> FileF]>>, <<LF>>)>>}
      [] vcs = "SVN" -> {<<ErrorLine(E155021)>>, <<Listing(<<>>, <<LF>>)>>,
                         <<Listing(<<[st |-> <<"M">>, name |-> Under(RootDir, FileF)]>>,
                                   <<LF>>)>>}

\* What vcs.check_status(path) may do in a lookup: the parser's results on
\* the runs above.
CheckResults ==
    [path \in CachePaths |->
        UNION {{CheckStatus(vcs, path, FALSE, RootDir, outs) : outs \in LookupRuns(vcs)} :
               vcs \in {"SVN", "Git", "Hg"}}]

\* TortoiseSVN / TortoiseGit / TortoiseHg get_status(path): build the parser
\* and call process_status.
GetStatus ==
    /\ \E path \in CachePaths, dur \in 0..MaxDur :
         \E res \in CheckResults[path] :
           LET r == ProcessStatus(file_status_cache[path], now, cache_length, res, dur)
           IN /\ r.t_end <= MaxTime
              /\ now' = r.t_end
              /\ file_status_cache' = [file_status_cache EXCEPT ![path] = r.entry]
              /\ lk' = [called |-> TRUE, path |-> path, t |-> now, t_end |-> r.t_end,
                        calls |-> r.calls, result |-> r.result, raised |-> r.raised,
                        surfaced |-> r.surfaced, escaped |-> r.escaped,
                        prev |-> hist[path], before |-> file_status_cache[path]]
              /\ hist' = [hist EXCEPT ![path] =
                              [seen |-> TRUE, t |-> now, calls |-> r.calls,
                               result |-> r.result, raised |-> r.raised]]
    /\ UNCHANGED <<parts, cache_length, search_vars>>

\* Time passes between lookups.
Tick ==
    /\ now < MaxTime
    /\ now' = now + 1
    /\ UNCHANGED <<parts, cache_length, file_status_cache, hist, lk, search_vars>>

CacheNext == GetStatus \/ Tick

SpecCache == CacheInit /\ [][CacheNext]_vars

(***************************************************************************)
(* Specification of the binary search: the FileSearch threads and the      *)
(* handle_threads poller on the main thread, one read or write of shared   *)
(* state per step.                                                         *)
(***************************************************************************)
\* The threads have been started; nothing has polled them yet.
SearchInit ==
    /\ markers = [d \in 0..0 |-> {}]
    /\ settings = {}
    /\ fr = FrIdle
    /\ gv = GvIdle
    /\ pr = PrIdle
    /\ CacheIdle
    /\ \E n \in 1..MaxThreads : threads \in [1..n -> {Started(o) : o \in SearchOutcomes}]
    /\ poller = PollerIdle
    /\ git_tgit_path \in {NoPath, "p0"}
    /\ view_status = Erased
    /\ set_calls = {}

\* A thread runs FileSearch.run up to its return.
SearchRun ==
    /\ \E t \in DOMAIN threads :
           /\ threads[t].pc = "running"
           /\ threads' = [threads EXCEPT ![t] = FileSearchRun(threads[t])]
    /\ UNCHANGED <<parts, cache_vars, poller, git_tgit_path, view_status, set_calls>>

\* A thread that assigned self.result returns and ends.
SearchReturn ==
    /\ \E t \in DOMAIN threads :
           /\ threads[t].pc = "found"
           /\ threads' = [threads EXCEPT ![t].pc = "done"]
    /\ UNCHANGED <<parts, cache_vars, poller, git_tgit_path, view_status, set_calls>>

\* handle_threads(self, threads) is called with the threads started.
HandleThreadsCall ==
    /\ poller.pc = "idle"
    /\ poller' = HandleThreadsEntry([k \in 1..Len(threads) |-> k], 0, 1)
    /\ UNCHANGED <<parts, cache_vars, threads, git_tgit_path, view_status, set_calls>>

\* for thread in threads: if thread.is_alive(): next_threads.append(thread)
PollIsAlive ==
    /\ poller.pc = "loop"
    /\ poller.k <= Len(poller.threads)
    /\ poller' = IF IsAlive(threads[poller.threads[poller.k]])
                 THEN [poller EXCEPT !.next_threads = Append(@, poller.threads[poller.k]),
                                     !.k = @ + 1]
                 ELSE [poller EXCEPT !.pc = "result"]
    /\ UNCHANGED <<parts, cache_vars, threads, git_tgit_path, view_status, set_calls>>

\* if thread.result is None: continue; else
\* settings.set('git_tgit_path', thread.result)
PollResult ==
    /\ poller.pc = "result"
    /\ LET t == poller.threads[poller.k]
       IN IF ResultIsNone(threads[t])
          THEN UNCHANGED <<git_tgit_path, set_calls>>
          ELSE /\ git_tgit_path' = threads[t].result
               /\ set_calls' = set_calls \cup
                      {[thread |-> t, value |-> threads[t].result,
                        alive |-> IsAlive(threads[t])]}
    /\ poller' = [poller EXCEPT !.pc = "loop", !.k = @ + 1]
    /\ UNCHANGED <<parts, cache_vars, threads, view_status>>

\* After the loop: threads = next_threads; with threads left, animate the
\* status and schedule the next call in 100 ms; with none, erase the status.
PollEnd ==
    /\ poller.pc = "loop"
    /\ poller.k > Len(poller.threads)
    /\ IF Len(poller.next_threads) > 0
       THEN LET a == Animate(poller.i, poller.dir)
            IN /\ view_status' = a.status
               /\ poller' = [poller EXCEPT !.pc = "scheduled",
                                           !.threads = poller.next_threads,
                                           !.i = a.i, !.dir = a.dir]
       ELSE /\ view_status' = Erased
            /\ poller' = [poller EXCEPT !.pc = "stopped", !.threads = <<>>]
    /\ UNCHANGED <<parts, cache_vars, threads, git_tgit_path, set_calls>>

\* The timeout expires: the scheduled lambda calls handle_threads(threads,
\* i, dir).
TimerFires ==
    /\ poller.pc = "scheduled"
    /\ poller' = HandleThreadsEntry(poller.threads, poller.i, poller.dir)
    /\ UNCHANGED <<parts, cache_vars, threads, git_tgit_path, view_status, set_calls>>

HandleThreads == PollIsAlive \/ PollResult \/ PollEnd \/ TimerFires

SearchNext ==
    SearchRun \/ SearchReturn \/ HandleThreadsCall
        \/ PollIsAlive \/ PollResult \/ PollEnd \/ TimerFires

SpecSearch == SearchInit /\ [][SearchNext]_vars

\* The main thread runs a call of handle_threads to its end, and the editor
\* runs a callback given to set_timeout.
SpecSearchFair == SpecSearch /\ WF_vars(HandleThreads)

(***************************************************************************)
(* Properties of find_root.                                                *)
(***************************************************************************)
\* The directory d of the filesystem holds the marker.
Has(d, name) == name \in markers[d]

\* The directories from the start directory of the call up to the root.
WalkDirs(s) == 0..StartDir(s.path)

\* The ancestors of the call's start directory (itself included) that hold
\* the marker.
Marked(s) == {d \in WalkDirs(s) : Has(d, s.name)}

\* The deepest of a non-empty set of directories of the chain.
Deepest(D) == CHOOSE d \in D : \A e \in D : e <= d

\* The innermost marked ancestor.
Innermost(s) == Deepest(Marked(s))

\* The outermost directory of the first contiguous run of marked ancestors.
Outermost(s) ==
    CHOOSE d \in Marked(s) :
        /\ \A e \in d..Innermost(s) : Has(e, s.name)
        /\ (d = 0 \/ ~Has(d - 1, s.name))

\* C5: find_root with find_first = false returns the outermost directory of
\* the first contiguous chain of marked ancestors: the last marked directory
\* before the first unmarked ancestor above the innermost marked one, or the
\* filesystem root when the chain reaches it.
C5_OutermostOfFirstChain ==
    (fr.pc = "returned" /\ ~fr.find_first)
        => /\ Marked(fr) # {}
           /\ fr.self_root_dir = Some(Outermost(fr))

\* A call that walked a chain of two marked directories and stopped under
\* the gap above them although the filesystem root holds the marker too.
C5_Witness ==
    /\ fr.pc = "returned" /\ ~fr.find_first
    /\ fr.path.at = 3
    /\ Has(3, fr.name) /\ Has(2, fr.name) /\ ~Has(1, fr.name) /\ Has(0, fr.name)
    /\ fr.self_root_dir = Some(2)
    /\ Innermost(fr) = 3

\* State part of C6.
C6_Safe ==
    /\ (fr.pc = "returned" /\ fr.find_first)
           => (Marked(fr) # {} /\ fr.self_root_dir = Some(Innermost(fr)))
    /\ fr.pc = "raised" => (Marked(fr) = {} /\ fr.self_root_dir = None)
    /\ fr.pc = "returned" => (Marked(fr) # {} /\ fr.self_root_dir # None)
    /\ (fr.pc = "after" /\ ~LoopCond(fr))
           => (fr.cur_dir = 0 /\ Dirname(fr.cur_dir) = fr.cur_dir)

\* C6: find_root with find_first = true returns the innermost marked
\* ancestor (start directory and filesystem root included); in either mode
\* it raises RepositoryNotFoundError, with self.root_dir unset, exactly when
\* no directory from the start up to the root holds the marker; and the walk
\* always ends, the loop condition failing only at the directory that is its
\* own parent.
C6_InnermostOrRaise ==
    /\ []C6_Safe
    /\ (fr.pc = "loop") ~> (fr.pc \in {"returned", "raised"})

\* A find_first call that returned the innermost of two marked ancestors.
C6_Witness ==
    /\ fr.pc = "returned" /\ fr.find_first
    /\ Cardinality(Marked(fr)) >= 2
    /\ fr.self_root_dir = Some(Innermost(fr))
    /\ fr.self_root_dir # Some(Outermost(fr))

(***************************************************************************)
(* Properties of get_vcs.                                                  *)
(***************************************************************************)
KindMarker(kind) ==
    CASE kind = "TortoiseSVN" -> ".svn"
      [] kind = "TortoiseGit" -> ".git"
      [] kind = "TortoiseHg" -> ".hg"

KindSetting(kind) ==
    CASE kind = "TortoiseSVN" -> "svn_tortoiseproc_path"
      [] kind = "TortoiseGit" -> "git_tortoiseproc_path"
      [] kind = "TortoiseHg" -> "hg_hgtk_path"

KindOrder == <<"TortoiseSVN", "TortoiseGit", "TortoiseHg">>

\* The markers found on the ancestors of the path given to get_vcs.
FoundMarkers(path) == UNION {markers[d] : d \in 0..StartDir(path)}

\* Positions in KindOrder of the backends whose marker is found.
FoundAt(path) == {i \in 1..3 : KindMarker(KindOrder[i]) \in FoundMarkers(path)}

\* Positions of the backends whose marker is found and whose binary path
\* setting is unset.
UnsetAt(path) == {i \in FoundAt(path) : KindSetting(KindOrder[i]) \notin settings}

\* The backend the claim expects: the last in the order SVN, Git, Mercurial
\* whose marker is found.
LastFound(path) == KindOrder[CHOOSE i \in FoundAt(path) : \A j \in FoundAt(path) : j <= i]

\* C3 as stated: whenever some marker is found, get_vcs returns the handle
\* of the last backend in the order SVN, Git, Mercurial whose root discovery
\* succeeded.
C3_AsStated ==
    (gv.called /\ gv.path # NonePath /\ FoundAt(gv.path) # {})
        => (gv.exc = "none" /\ gv.vcs.kind = LastFound(gv.path))

\* C3 amended: get_vcs tries SVN, Git, Mercurial in that order, skipping the
\* attempts that fail with RepositoryNotFoundError; when every backend whose
\* marker is found has its binary path configured it returns the handle of
\* the last backend whose marker is found (Git for a path with only .git,
\* Mercurial over Git over SVN); otherwise the first such backend without a
\* configured binary path raises NotFoundError, which ends get_vcs at once.
C3_LastFoundWins ==
    (gv.called /\ gv.path # NonePath /\ FoundAt(gv.path) # {})
        => IF UnsetAt(gv.path) = {}
           THEN /\ gv.exc = "none"
                /\ gv.vcs.kind = LastFound(gv.path)
                /\ gv.tried = KindOrder
                /\ (FoundMarkers(gv.path) = {".git"} => gv.vcs.kind = "TortoiseGit")
           ELSE /\ gv.exc = "NotFoundError"
                /\ gv.tried = SubSeq(KindOrder, 1,
                                     CHOOSE i \in UnsetAt(gv.path) :
                                         \A j \in UnsetAt(gv.path) : i <= j)

\* get_vcs returned Mercurial for a path that lies under all three markers.
C3_Witness ==
    /\ gv.called /\ gv.exc = "none"
    /\ FoundMarkers(gv.path) = MarkerNames
    /\ gv.vcs.kind = "TortoiseHg"
    /\ gv.tried = KindOrder

\* C4: get_vcs raises NotFoundError when none of .svn, .git, .hg is found on
\* any ancestor of the path (after the three root discoveries), and raises
\* it before any root discovery when the path is None.
C4_NotFound ==
    /\ (gv.called /\ gv.path # NonePath /\ FoundMarkers(gv.path) = {})
           => (gv.exc = "NotFoundError" /\ gv.vcs = NoVcs /\ gv.tried = KindOrder)
    /\ (gv.called /\ gv.path = NonePath)
           => (gv.exc = "NotFoundError" /\ gv.vcs = NoVcs /\ gv.tried = <<>>)

\* get_vcs raised for a file two levels deep with no marker above it, all
\* binary paths being configured.
C4_Witness ==
    /\ gv.called /\ gv.path = [kind |-> "file", at |-> 2]
    /\ FoundMarkers(gv.path) = {}
    /\ settings = SettingKeys
    /\ gv.exc = "NotFoundError"

(***************************************************************************)
(* Properties of the status parsers.                                       *)
(***************************************************************************)
\* The status git's two columns stand for: column 1 unless it is blank, then
\* column 2, in upper case.
GitCodeMeaning(st) ==
    CASE st = <<SP, "M">> -> <<"M">>
      [] st = <<"M", SP>> -> <<"M">>
      [] st = <<"A", SP>> -> <<"A">>
      [] st = <<"?", "?">> -> <<"?">>
      [] st = <<SP, "m">> -> <<"M">>
      [] st = <<"A", "M">> -> <<"A">>

\* The least element of a non-empty set of line numbers.
First(I) == CHOOSE i \in I : \A j \in I : i <= j

\* The path of the call relative to the root.
RelPath == PathWithoutRoot(pr.path, RootDir)

\* The line numbers of a listing whose text ends with the relative path.
SuffixLines(vcs, lines) ==
    {i \in 1..Len(lines) : SearchAtEnd(RelPath, LineText(vcs, lines[i]))}

\* The line numbers of a listing that refer to the queried file itself.
OwnLines(lines) ==
    {i \in 1..Len(lines) : lines[i].name \in {pr.path, RelPath}}

\* A call on a file whose process wrote a listing and that returned.
FileCallReturned(vcs) ==
    /\ pr.called /\ pr.vcs = vcs /\ ~pr.isdir
    /\ pr.res.exc = "none"

SvnScanned ==
    IF pr.outs[1].kind = "listing" THEN pr.outs[1].lines
    ELSE IF Len(pr.outs) > 1 /\ pr.outs[1].kind = "error" /\ pr.outs[2].kind = "listing"
         THEN pr.outs[2].lines
    ELSE <<>>

\* The status a listing gives the queried file: that of the first line that
\* refers to the file itself.
OwnStatus(vcs, lines) ==
    LET st == lines[First(OwnLines(lines))].st
    IN IF vcs = "Git" THEN GitCodeMeaning(st) ELSE st

\* The line a status is taken from refers to the queried file, and a
\* listing that holds a line for the queried file gives that line's status.
AnchoredOn(vcs, lines) ==
    /\ SuffixLines(vcs, lines) # {} => First(SuffixLines(vcs, lines)) \in OwnLines(lines)
    /\ OwnLines(lines) # {} => pr.res.status = OwnStatus(vcs, lines)

\* C10: SVN.check_status and Git.check_status never take the status from a
\* line that refers to a different file whose name ends with the queried
\* name; a listing with both f and bf, in either order, gives a query for f
\* the status of the line of f.
C10_AsStated ==
    /\ FileCallReturned("SVN") => AnchoredOn("SVN", SvnScanned)
    /\ FileCallReturned("Git") => AnchoredOn("Git", pr.outs[1].lines)

(***************************************************************************)
(* Properties of the status cache.                                         *)
(***************************************************************************)
\* The last lookup came within one cache_length of the lookup made before
\* it for the same path.
WithinTtlOfPrevious ==
    /\ lk.called /\ lk.prev.seen
    /\ lk.t - lk.prev.t <= cache_length

\* C1: two lookups for the same path within one cache_length of each other
\* call check_status at most once; when the first called it, the second
\* returns the status the first stored without calling check_status.
C1_OneCallPerTtl ==
    WithinTtlOfPrevious
        => /\ lk.prev.calls + lk.calls <= 1
           /\ lk.prev.calls = 1
                  => (lk.calls = 0 /\ lk.result = lk.prev.result
                      /\ lk.result = lk.before.status)

\* A lookup exactly one cache_length after the lookup that fetched M.
C1_Witness ==
    /\ WithinTtlOfPrevious
    /\ lk.t - lk.prev.t = cache_length
    /\ lk.prev.calls = 1 /\ lk.calls = 0
    /\ lk.result = <<"M">>

\* The time at which the entry a lookup found was stored: its 'time' field
\* is the time of the store plus cache_length.
StoredAt(entry) == entry.time - cache_length

\* C2 as stated: a lookup made more than one cache_length after the entry
\* for its path was stored calls check_status exactly once and overwrites
\* the entry with the fresh status and the expiry now + cache_length.
C2_AsStated ==
    (lk.called /\ lk.before.present /\ lk.t - StoredAt(lk.before) > cache_length)
        => /\ lk.calls = 1
           /\ file_status_cache[lk.path] = Entry(lk.t_end + cache_length, lk.result)

\* The entry check_status's failure leaves behind.
FailureEntry == Entry(lk.t_end + cache_length, NoneStatus)

\* C7 as stated: when check_status raises, the error is surfaced, the
\* lookup returns None and no cache entry for the path is created or
\* changed.
C7_AsStated ==
    (lk.called /\ lk.raised)
        => /\ lk.surfaced /\ lk.result = NoneStatus
           /\ file_status_cache[lk.path] = lk.before

\* C7 amended: when check_status raises, the error is surfaced, the lookup
\* returns None and the failed result is cached: the entry for the path is
\* overwritten with status None and the expiry now + cache_length.
C7_FailureSurfacedAndCached ==
    (lk.called /\ lk.raised)
        => /\ lk.surfaced /\ lk.result = NoneStatus
           /\ file_status_cache[lk.path] = FailureEntry
           /\ file_status_cache[lk.path] # lk.before

\* A failing lookup replaced the entry of an earlier successful one.
C7_Witness ==
    /\ lk.called /\ lk.raised /\ lk.surfaced
    /\ lk.before.present /\ lk.before.status = <<"M">>
    /\ file_status_cache[lk.path].status = NoneStatus

\* C8: an exception of check_status does not leave the lookup and an entry
\* with status None is written, so that a further lookup for the path
\* within cache_length returns None without calling check_status.
C8_FailureNotRetried ==
    /\ (lk.called /\ lk.raised)
           => (~lk.escaped /\ file_status_cache[lk.path].present
               /\ file_status_cache[lk.path].status = NoneStatus)
    /\ (WithinTtlOfPrevious /\ lk.prev.raised)
           => (lk.calls = 0 /\ ~lk.raised /\ lk.result = NoneStatus)

\* A lookup one cache_length after a failed one returned None from the
\* cache.
C8_Witness ==
    /\ WithinTtlOfPrevious /\ lk.prev.raised
    /\ lk.t - lk.prev.t = cache_length
    /\ lk.calls = 0 /\ lk.result = NoneStatus

(***************************************************************************)
(* Properties of the parsers on empty output and output without a line for *)
(* the target.                                                             *)
(***************************************************************************)
\* The text of the error line of an svn error outcome, as run() returns it.
ErrorText(o) == <<"s", "v", "n", ":", SP>> \o o.code \o <<":", SP, "x">>

\* The text lines of an outcome that wrote something.
TextLines(vcs, o) ==
    IF o.kind = "error" THEN <<ErrorText(o)>>
    ELSE [i \in 1..Len(o.lines) |-> LineText(vcs, o.lines[i])]

\* An svn candidate that wrote an error line other than E155021.
MinorError(o) == o.kind = "error" /\ o.code # E155021

\* The output SVN.check_status scans when no candidate raises: that of the
\* first candidate without an error line, else that of the last candidate.
SvnScannedOutcome ==
    IF MinorError(pr.outs[1]) /\ Len(pr.outs) > 1 THEN pr.outs[2] ELSE pr.outs[1]

\* Every svn candidate that ran could be started and none wrote E155021.
SvnReachedScan ==
    /\ pr.outs[1].kind = "listing" \/ MinorError(pr.outs[1])
    /\ (MinorError(pr.outs[1]) /\ Len(pr.outs) > 1)
           => (pr.outs[2].kind = "listing" \/ MinorError(pr.outs[2]))

\* No text line of the outcome refers to the target: none ends with the
\* relative path (every line refers to the root when the root is queried).
NoLineForTarget(vcs, o) ==
    \A i \in 1..Len(TextLines(vcs, o)) :
        /\ pr.path # RootDir
        /\ ~SearchAtEnd(RelPath, TextLines(vcs, o)[i])

\* The case of C11: the process output is empty or holds no line for the
\* target (Mercurial does not filter lines: its case is the empty output).
EmptyOrNoMatch ==
    /\ pr.called
    /\ CASE pr.vcs = "SVN" ->
                SvnReachedScan /\ NoLineForTarget("SVN", SvnScannedOutcome)
         [] pr.vcs = "Git" ->
                pr.outs[1].kind = "listing" /\ NoLineForTarget("Git", pr.outs[1])
         [] pr.vcs = "Hg" ->
                pr.outs[1].kind = "listing" /\ pr.outs[1].lines = <<>>
         [] OTHER -> FALSE

\* C11 as stated: for each parser and every target, file or directory,
\* empty output or output without a line for the target makes check_status
\* return ''.
C11_AsStated == EmptyOrNoMatch => pr.res = Returned(<<>>)

\* C11 amended: for a file target of any parser, and for a directory target
\* of SVN, empty output or output without a line for the target makes
\* check_status return '' (no exception, no None); for a directory target
\* Git and Mercurial return '?' when the log output is empty and '' when it
\* is not.
C11_EmptyIsCleanForFiles ==
    /\ (EmptyOrNoMatch /\ (~pr.isdir \/ pr.vcs = "SVN")) => pr.res = Returned(<<>>)
    /\ (EmptyOrNoMatch /\ pr.isdir /\ pr.vcs \in {"Git", "Hg"})
           => pr.res = (IF pr.outs[1].lines = <<>> THEN Returned(<<"?">>)
                        ELSE Returned(<<>>))

\* Git.check_status returned '' for the file bf from a listing whose only
\* line is that of f.
C11_Witness ==
    /\ EmptyOrNoMatch
    /\ pr.vcs = "Git" /\ pr.path = Under(RootDir, FileBF) /\ ~pr.isdir
    /\ pr.outs[1].lines = <<[st |-> <<SP, "M">>, name |-> FileF]>>
    /\ pr.res = Returned(<<>>)

(***************************************************************************)
(* Properties of the svn candidates.                                       *)
(***************************************************************************)
\* The first loop of SVN.check_status on the outcomes of the last call.
SvnLoop == SvnCandidates(ProcsOf("SVN", pr.outs), 1, <<>>)

\* The number of candidates the claim expects to run: up to the first one
\* that does not write an error line other than E155021, all of them when
\* there is none.
ExpectedRan == IF MinorError(pr.outs[1]) /\ Len(pr.outs) > 1 THEN 2 ELSE 1

\* A candidate that ran wrote E155021 on its first line.
FatalSeen == \E i \in 1..ExpectedRan : pr.outs[i] = ErrorLine(E155021)

\* C12: SVN.check_status runs the candidates in order, the configured
\* svn_path first and the bundled svn.exe next; when a candidate that runs
\* writes E155021 on its first line check_status raises the too-old-client
\* exception and derives no status from that output; it stops at the first
\* candidate whose output does not start with an svn error line.
C12_FatalCodeRaises ==
    (pr.called /\ pr.vcs = "SVN")
        => /\ Len(pr.outs) = Len(SvnPaths(settings))
           /\ SvnPaths(settings)[Len(pr.outs)] = "bundled"
           /\ Len(pr.outs) = 2 => SvnPaths(settings)[1] = "svn_path"
           /\ SvnLoop.ran = ExpectedRan
           /\ FatalSeen => pr.res = Raised("Exception")
           /\ pr.outs[1].kind = "listing"
                  => (SvnLoop.ran = 1 /\ pr.res.exc = "none")

\* The configured svn wrote another error, the bundled one wrote E155021:
\* check_status raised.
C12_Witness ==
    /\ pr.called /\ pr.vcs = "SVN"
    /\ "svn_path" \in settings
    /\ pr.outs = <<ErrorLine(E170013), ErrorLine(E155021)>>
    /\ pr.res = Raised("Exception")

(***************************************************************************)
(* Properties of the values get_status returns.                            *)
(***************************************************************************)
\* The status codes of the specification; the empty sequence is ''.
StatusAlphabet == {<<"A">>, <<"M">>, <<"R">>, <<"C">>, <<"U">>, <<"D">>, <<"?">>, <<>>}

\* What get_status returns for the last check_status call when nothing
\* is cached for the path: process_status on the parser's result.
GetStatusValue == ProcessStatus(NoEntry, 0, 1, pr.res, 0).result

\* Every svn candidate of the last call wrote an error line other than
\* E155021.
AllCandidatesMinor == \A i \in 1..Len(pr.outs) : MinorError(pr.outs[i])

\* C13: every value get_status returns, for each backend and each process
\* output, failed lookups and svn runs where every candidate wrote a
\* non-E155021 error line included, is one of A, M, R, C, U, D, ?, ''.
C13_AsStated == pr.called => GetStatusValue \in StatusAlphabet

\* C13, the svn case: the first character of the error line is returned.
C13_SvnErrorLine ==
    (pr.called /\ pr.vcs = "SVN" /\ AllCandidatesMinor) => GetStatusValue # <<"s">>

\* C13, the failed lookup: None is returned.
C13_FailedLookup ==
    (pr.called /\ pr.res.exc # "none") => GetStatusValue # NoneStatus

(***************************************************************************)
(* Properties of the binary search.                                        *)
(***************************************************************************)
NoThreadAlive == \A t \in DOMAIN threads : threads[t].pc = "done"

\* No exception has left FileSearch.run.
NothingEscaped == \A t \in DOMAIN threads : ~threads[t].escaped

\* Every settings.set call wrote the path found by a thread that had ended.
SetCallsFromFinished ==
    \A w \in set_calls :
        /\ ~w.alive
        /\ w.value # NoPath
        /\ threads[w.thread].pc = "done"
        /\ threads[w.thread].outcome = [kind |-> "found", path |-> w.value, exc |-> "none"]

\* The setting changes only in a settings.set call, and handling a thread
\* whose result is None leaves it alone.
SettingKept ==
    /\ git_tgit_path' # git_tgit_path => set_calls' # set_calls
    /\ (poller.pc = "result" /\ threads[poller.threads[poller.k]].result = NoPath)
           => git_tgit_path' = git_tgit_path

\* A poller that stopped stays stopped, with the status erased.
StoppedForGood ==
    poller.pc = "stopped" => (poller'.pc = "stopped" /\ view_status' = Erased)

PollerDone == poller.pc = "stopped" /\ view_status = Erased

\* C14: no exception leaves a search thread; under every interleaving of
\* the threads with handle_threads, git_tgit_path is written only with the
\* result, not None, of a thread that has ended, and is left as it was for a
\* thread that ended with result None; once no thread is alive, the running
\* poller erases the status and stops without scheduling itself again.
C14_SearchAndPoller ==
    /\ [](NothingEscaped /\ SetCallsFromFinished)
    /\ [](poller.pc = "stopped" => (NoThreadAlive /\ view_status = Erased))
    /\ [][SettingKept /\ StoppedForGood]_vars
    /\ (poller.pc # "idle" /\ NoThreadAlive) ~> PollerDone

\* The poller rescheduled itself at least once and has stopped; one thread
\* found p1, which was written, another raised in search_file and wrote
\* nothing.
C14_Witness ==
    /\ PollerDone
    /\ poller.i > 0
    /\ Len(threads) = 2
    /\ threads[1].outcome.kind = "error"
    /\ threads[2].outcome = [kind |-> "found", path |-> "p1", exc |-> "none"]
    /\ set_calls = {[thread |-> 2, value |-> "p1", alive |-> FALSE]}
    /\ git_tgit_path = "p1"

====
